---- MODULE Spec2Model ----
(***************************************************************************)
(* State-machine model of the energy-investment core of hackaton-backend:  *)
(*   - calculate_self_consumption_rate (src/api/services/optimization.py)  *)
(*   - optimize_investment             (src/api/services/optimization.py)  *)
(*   - optimize_energy_investment      (src/api/routes/optimization.py)    *)
(*   - get_user_portfolio, its replay  (src/api/routes/portfolio.py)       *)
(*                                                                         *)
(* Numbers.  The code computes with Python floats; the model computes with *)
(* exact integers in scaled units:                                         *)
(*   - samples (kW) are integers; a "*_kwh" field holds 4 x the energy in  *)
(*     kWh, i.e. the power sum that the code multiplies by 0.25;           *)
(*   - electricity_price and feed_in_tariff are in cents per kWh, so an    *)
(*     annual_benefit holds 400 x the benefit in currency units;           *)
(*   - a rate (round(x, 2) of a percentage) holds 100 x the rate, so 100 % *)
(*     is 10000.                                                           *)
(***************************************************************************)
EXTENDS Integers, Sequences, FiniteSets, TLC

VARIABLES
    portfolio,              \* get_user_portfolio: its transactions, positions and result
    consumption,            \* simulator argument: consumption series
    production,             \* simulator argument: production series
    battery_capacity_kwh,   \* simulator argument, one per run
    sim,                    \* simulator locals, one record per run
    consumption_profile,    \* allocator argument: the caller's consumption list
    available_projects,     \* allocator argument: the caller's project list
    electricity_price,      \* allocator argument (cents per kWh)
    feed_in_tariff,         \* allocator argument (cents per kWh)
    budget,                 \* allocator argument: <<>> is None, <<b>> is the number b
    max_shares_per_project, \* allocator argument
    frame                   \* allocator locals, one record per invocation

simVars == <<consumption, production, battery_capacity_kwh, sim>>

argVars == <<consumption_profile, available_projects, electricity_price,
             feed_in_tariff, budget, max_shares_per_project>>

allocVars == <<consumption_profile, available_projects, electricity_price,
               feed_in_tariff, budget, max_shares_per_project, frame>>

portfolioVars == <<portfolio>>

vars == <<portfolio, consumption, production, battery_capacity_kwh, sim,
          consumption_profile, available_projects, electricity_price,
          feed_in_tariff, budget, max_shares_per_project, frame>>

\* ---------------------------------------------------------------- bounds

MaxLen == 2
MaxSample == 2
MaxCap == 2
MaxProjects == 2
MaxShares == 2
MaxBudget == 3
MaxTransactions == 3

Samples == 0..MaxSample

SeqsUpTo(S, n) == UNION {[1..k -> S] : k \in 0..n}

\* ---------------------------------------------------------------- helpers

Min(a, b) == IF a <= b THEN a ELSE b

Max(a, b) == IF a >= b THEN a ELSE b

Abs(a) == IF a >= 0 THEN a ELSE -a

RECURSIVE SumSeq(_)
SumSeq(s) == IF s = <<>> THEN 0 ELSE s[1] + SumSeq(Tail(s))

\* round(n / d) to the nearest integer, an exact half going to the even neighbour.
\* The code rounds a float, so on an exact half (a money amount ending in half a
\* cent) its result follows the float's binary value and may be the other
\* neighbour; everywhere else the two agree.
RoundHalfEven(n, d) ==
    LET q == n \div d
        r == n % d
    IN  IF 2 * r < d THEN q
        ELSE IF 2 * r > d THEN q + 1
        ELSE IF q % 2 = 0 THEN q ELSE q + 1

\* ------------------------------------------- calculate_self_consumption_rate

\* The accumulators before the loop.
SimStart ==
    [battery_level |-> 0, grid_import |-> 0, grid_export |-> 0, self_consumed |-> 0]

\* One iteration of the loop over zip(consumption, production).
IntervalStepDropsCharge(s, cons, prod, cap) ==
    LET net == prod - cons
    IN  IF net >= 0
        THEN LET charge_amount ==
                     IF cap > 0 THEN Min(net, cap - s.battery_level) ELSE 0
             IN  [s EXCEPT !.self_consumed = @ + Max(0, cons - charge_amount),
                           !.battery_level = @ + charge_amount,
                           !.grid_export = @ + (net - charge_amount)]
        ELSE LET deficit == Abs(net)
                 discharge_amount ==
                     IF cap > 0 /\ s.battery_level > 0
                     THEN Min(deficit, s.battery_level) ELSE 0
             IN  [s EXCEPT !.self_consumed = @ + prod,
                           !.battery_level = @ - discharge_amount,
                           !.grid_import = @ + (deficit - discharge_amount)]

IntervalStepDeficitCountsDemand(s, cons, prod, cap) ==
    LET net == prod - cons
    IN  IF net >= 0
        THEN LET charge_amount ==
                     IF cap > 0 THEN Min(net, cap - s.battery_level) ELSE 0
             IN  [s EXCEPT !.self_consumed = @ + cons,
                           !.battery_level = @ + charge_amount,
                           !.grid_export = @ + (net - charge_amount)]
        ELSE LET deficit == Abs(net)
                 discharge_amount ==
                     IF cap > 0 /\ s.battery_level > 0
                     THEN Min(deficit, s.battery_level) ELSE 0
             IN  [s EXCEPT !.self_consumed = @ + cons,
                           !.battery_level = @ - discharge_amount,
                           !.grid_import = @ + (deficit - discharge_amount)]

\* A surplus step that charges the whole surplus.
IntervalStepOverCharge(s, cons, prod, cap) ==
    LET net == prod - cons
    IN  IF net >= 0
        THEN LET charge_amount == IF cap > 0 THEN net ELSE 0
             IN  [s EXCEPT !.self_consumed = @ + cons,
                           !.battery_level = @ + charge_amount,
                           !.grid_export = @ + (net - charge_amount)]
        ELSE LET deficit == Abs(net)
                 discharge_amount ==
                     IF cap > 0 /\ s.battery_level > 0
                     THEN Min(deficit, s.battery_level) ELSE 0
             IN  [s EXCEPT !.self_consumed = @ + prod,
                           !.battery_level = @ - discharge_amount,
                           !.grid_import = @ + (deficit - discharge_amount)]

\* A deficit step that leaves the battery level alone.
IntervalStepKeepsLevel(s, cons, prod, cap) ==
    LET net == prod - cons
    IN  IF net >= 0
        THEN LET charge_amount ==
                     IF cap > 0 THEN Min(net, cap - s.battery_level) ELSE 0
             IN  [s EXCEPT !.self_consumed = @ + cons,
                           !.battery_level = @ + charge_amount,
                           !.grid_export = @ + (net - charge_amount)]
        ELSE LET deficit == Abs(net)
                 discharge_amount ==
                     IF cap > 0 /\ s.battery_level > 0
                     THEN Min(deficit, s.battery_level) ELSE 0
             IN  [s EXCEPT !.self_consumed = @ + prod,
                           !.grid_import = @ + (deficit - discharge_amount)]

\* A deficit step that counts the discharged energy as self-consumed.
IntervalStepCountsDischarge(s, cons, prod, cap) ==
    LET net == prod - cons
    IN  IF net >= 0
        THEN LET charge_amount ==
                     IF cap > 0 THEN Min(net, cap - s.battery_level) ELSE 0
             IN  [s EXCEPT !.self_consumed = @ + cons,
                           !.battery_level = @ + charge_amount,
                           !.grid_export = @ + (net - charge_amount)]
        ELSE LET deficit == Abs(net)
                 discharge_amount ==
                     IF cap > 0 /\ s.battery_level > 0
                     THEN Min(deficit, s.battery_level) ELSE 0
             IN  [s EXCEPT !.self_consumed = @ + prod + discharge_amount,
                           !.battery_level = @ - discharge_amount,
                           !.grid_import = @ + (deficit - discharge_amount)]

\* A deficit step that draws up to the capacity instead of up to the level.
IntervalStepDrainsCapacity(s, cons, prod, cap) ==
    LET net == prod - cons
    IN  IF net >= 0
        THEN LET charge_amount ==
                     IF cap > 0 THEN Min(net, cap - s.battery_level) ELSE 0
             IN  [s EXCEPT !.self_consumed = @ + cons,
                           !.battery_level = @ + charge_amount,
                           !.grid_export = @ + (net - charge_amount)]
        ELSE LET deficit == Abs(net)
                 discharge_amount ==
                     IF cap > 0 /\ s.battery_level > 0 THEN Min(deficit, cap) ELSE 0
             IN  [s EXCEPT !.self_consumed = @ + prod,
                           !.battery_level = @ - discharge_amount,
                           !.grid_import = @ + (deficit - discharge_amount)]

\* charge_amount of a surplus interval, 0 when the battery is not charged.
ChargeAmount(s, net, cap) ==
    IF cap > 0 THEN Min(net, cap - s.battery_level) ELSE 0

\* discharge_amount of a deficit interval, 0 when the battery is not drawn on.
DischargeAmount(s, deficit, cap) ==
    IF cap > 0 /\ s.battery_level > 0 THEN Min(deficit, s.battery_level) ELSE 0

IntervalStep(s, cons, prod, cap) ==
    LET net == prod - cons
    IN  IF net >= 0
        THEN LET charge_amount == ChargeAmount(s, net, cap)
             IN  [s EXCEPT !.self_consumed = @ + cons,
                           !.battery_level = @ + charge_amount,
                           !.grid_export = @ + (net - charge_amount)]
        ELSE LET deficit == Abs(net)
                 discharge_amount == DischargeAmount(s, deficit, cap)
             IN  [s EXCEPT !.self_consumed = @ + prod,
                           !.battery_level = @ - discharge_amount,
                           !.grid_import = @ + (deficit - discharge_amount)]

\* zip() stops at the shorter of its two arguments.
ZipLen(c, p) == Min(Len(c), Len(p))

\* (part / total * 100) if total > 0 else 0, then round(., 2); in 1/100 %.
RateUnguarded(part, total) ==
    IF total > 0 THEN RoundHalfEven(part * 10000, total) ELSE 10000

Rate(part, total) ==
    IF total > 0 THEN RoundHalfEven(part * 10000, total) ELSE 0

\* The returned dict, from the accumulators after the loop.
Metrics(s, c, p) ==
    [total_consumption_kwh |-> SumSeq(c),
     total_production_kwh  |-> SumSeq(p),
     self_consumed_kwh     |-> s.self_consumed,
     grid_import_kwh       |-> s.grid_import,
     grid_export_kwh       |-> s.grid_export,
     self_consumption_rate |-> Rate(s.self_consumed, SumSeq(p)),
     autarky_rate          |-> Rate(s.self_consumed, SumSeq(c))]

\* The accumulators after the first n pairs of zip(c, p).
RECURSIVE SimAfter(_, _, _, _)
SimAfter(c, p, cap, n) ==
    IF n = 0 THEN SimStart
    ELSE IntervalStep(SimAfter(c, p, cap, n - 1), c[n], p[n], cap)

\* The whole function, as the allocator calls it.
calculate_self_consumption_rate(c, p, cap) ==
    Metrics(SimAfter(c, p, cap, ZipLen(c, p)), c, p)

\* ------------------------------------------------------ optimize_investment

\* Python truthiness of the optional budget: None and 0 are both false.
Truthy(b) == b # <<>> /\ b[1] # 0

\* annual_cycles = daily_cycles * 365
annual_cycles == 365

\* efficiency = 0.8, in tenths
efficiency_tenths == 8

\* An estimate without the factor 0.5.
BatteryBenefitWholeShift(capacity, price) ==
    (capacity * annual_cycles * efficiency_tenths * price * 4) \div 10

\* The closed-form battery estimate for a capacity (kWh):
\* capacity * annual_cycles * efficiency * 0.5 * electricity_price, times 400.
BatteryBenefit(capacity, price) ==
    (capacity * annual_cycles * efficiency_tenths * price * 4) \div 20

\* A benefit that leaves the export revenue out.
GenerationBenefitSavingsOnly(metrics, price, tariff) ==
    metrics.self_consumed_kwh * price

\* grid_savings + export_revenue of a simulation result.
GenerationBenefit(metrics, price, tariff) ==
    metrics.self_consumed_kwh * price + metrics.grid_export_kwh * tariff

\* [p * shares for p in production_profile]
Scaled(profile, shares) == [i \in 1..Len(profile) |-> profile[i] * shares]

\* payback_years as a fraction num / den of years, den > 0.
Sentinel == [num |-> 999, den |-> 1]

Payback(price_per_share, annual_benefit) ==
    IF annual_benefit > 0
    THEN [num |-> 400 * price_per_share, den |-> annual_benefit]
    ELSE Sentinel

PaybackLess(a, b) == a.num * b.den < b.num * a.den

\* The project_scores entry of one project (one share assumed).
ScoreOf(project, cp, price, tariff) ==
    LET metrics ==
            IF project.is_battery
            THEN [self_consumption_rate |-> 0, autarky_rate |-> 0]
            ELSE calculate_self_consumption_rate(cp, project.production_profile, 0)
        annual_benefit ==
            IF project.is_battery
            THEN BatteryBenefit(project.capacity_per_share, price)
            ELSE GenerationBenefit(metrics, price, tariff)
    IN  [project_id |-> project.id,
         project_name |-> project.id,
         energy_type |-> project.energy,
         capacity_per_share |-> project.capacity_per_share,
         price_per_share |-> project.price_per_share,
         annual_benefit |-> annual_benefit,
         payback_years |-> Payback(project.price_per_share, annual_benefit),
         self_consumption_rate |-> metrics.self_consumption_rate,
         autarky_rate |-> metrics.autarky_rate,
         production_profile |-> project.production_profile,
         is_battery |-> project.is_battery]

\* A scoring loop without the length test: zip() truncates in the simulator.
RECURSIVE ScoreAllKeepsMismatched(_, _, _, _)
ScoreAllKeepsMismatched(projects, cp, price, tariff) ==
    IF projects = <<>> THEN <<>>
    ELSE <<ScoreOf(Head(projects), cp, price, tariff)>>
             \o ScoreAllKeepsMismatched(Tail(projects), cp, price, tariff)

\* The scoring loop: projects whose profile length differs from n_intervals are
\* skipped, the others are scored, in input order.
RECURSIVE ScoreAll(_, _, _, _)
ScoreAll(projects, cp, price, tariff) ==
    IF projects = <<>> THEN <<>>
    ELSE LET project == Head(projects)
             rest == ScoreAll(Tail(projects), cp, price, tariff)
         IN  IF Len(project.production_profile) # Len(cp)
             THEN rest
             ELSE <<ScoreOf(project, cp, price, tariff)>> \o rest

\* list.sort(key=payback_years): ascending and stable.
RECURSIVE InsertByPaybackUnstable(_, _)
InsertByPaybackUnstable(sorted, x) ==
    IF sorted = <<>> THEN <<x>>
    ELSE IF ~PaybackLess(Head(sorted).payback_years, x.payback_years)
         THEN <<x>> \o sorted
         ELSE <<Head(sorted)>> \o InsertByPaybackUnstable(Tail(sorted), x)

RECURSIVE InsertByPayback(_, _)
InsertByPayback(sorted, x) ==
    IF sorted = <<>> THEN <<x>>
    ELSE IF PaybackLess(x.payback_years, Head(sorted).payback_years)
         THEN <<x>> \o sorted
         ELSE <<Head(sorted)>> \o InsertByPayback(Tail(sorted), x)

RECURSIVE SortByPayback(_)
SortByPayback(scores) ==
    IF scores = <<>> THEN <<>>
    ELSE InsertByPayback(SortByPayback(SubSeq(scores, 1, Len(scores) - 1)),
                         scores[Len(scores)])

\* if budget and (total_investment + investment) > budget: break
OverBudget(b, total, investment) == Truthy(b) /\ total + investment > b[1]

\* if budget and total_investment >= budget: break
BudgetSpent(b, total) == Truthy(b) /\ total >= b[1]

\* annual_benefit of `shares` shares of a scored project against the residual.
SharesBenefit(project, shares, remaining, price, tariff) ==
    IF project.is_battery
    THEN BatteryBenefit(project.capacity_per_share * shares, price)
    ELSE GenerationBenefit(
             calculate_self_consumption_rate(
                 remaining, Scaled(project.production_profile, shares), 0),
             price, tariff)

\* A share loop that also takes a share count earning nothing.
RECURSIVE ShareSearchAcceptsZero(_, _, _, _, _, _, _, _, _)
ShareSearchAcceptsZero(project, shares, best, remaining, total, b, max_shares, price, tariff) ==
    IF shares > max_shares THEN best
    ELSE IF OverBudget(b, total, shares * project.price_per_share) THEN best
    ELSE LET annual_benefit == SharesBenefit(project, shares, remaining, price, tariff)
         IN  ShareSearchAcceptsZero(
                 project, shares + 1,
                 IF annual_benefit >= best.best_benefit
                 THEN [best_shares |-> shares, best_benefit |-> annual_benefit]
                 ELSE best,
                 remaining, total, b, max_shares, price, tariff)

\* The share loop from `shares` on, with the best found so far.
RECURSIVE ShareSearch(_, _, _, _, _, _, _, _, _)
ShareSearch(project, shares, best, remaining, total, b, max_shares, price, tariff) ==
    IF shares > max_shares THEN best
    ELSE IF OverBudget(b, total, shares * project.price_per_share) THEN best
    ELSE LET annual_benefit == SharesBenefit(project, shares, remaining, price, tariff)
         IN  ShareSearch(project, shares + 1,
                         IF annual_benefit > best.best_benefit
                         THEN [best_shares |-> shares, best_benefit |-> annual_benefit]
                         ELSE best,
                         remaining, total, b, max_shares, price, tariff)

\* An update without the floor at 0.
ResidualUnfloored(remaining, scaled_production) ==
    [i \in 1..Len(remaining) |-> remaining[i] - scaled_production[i]]

\* Update remaining consumption: max(0, remaining[i] - scaled_production[i]).
Residual(remaining, scaled_production) ==
    [i \in 1..Len(remaining) |-> Max(0, remaining[i] - scaled_production[i])]

\* The recommendation appended for a project and its best share count.
RecommendationSharesOnly(project, best) ==
    [project_id |-> project.project_id,
     project_name |-> project.project_name,
     energy_type |-> project.energy_type,
     recommended_shares |-> best.best_shares,
     investment_amount |-> best.best_shares * project.price_per_share,
     annual_benefit |-> best.best_benefit,
     payback_years |-> IF best.best_benefit > 0
                       THEN [num |-> 400 * best.best_shares * project.price_per_share,
                             den |-> best.best_benefit]
                       ELSE Sentinel,
     capacity |-> best.best_shares,
     capacity_unit |-> IF project.is_battery THEN "kWh" ELSE "kW"]

Recommendation(project, best) ==
    [project_id |-> project.project_id,
     project_name |-> project.project_name,
     energy_type |-> project.energy_type,
     recommended_shares |-> best.best_shares,
     investment_amount |-> best.best_shares * project.price_per_share,
     annual_benefit |-> best.best_benefit,
     payback_years |-> IF best.best_benefit > 0
                       THEN [num |-> 400 * best.best_shares * project.price_per_share,
                             den |-> best.best_benefit]
                       ELSE Sentinel,
     capacity |-> project.capacity_per_share * best.best_shares,
     capacity_unit |-> IF project.is_battery THEN "kWh" ELSE "kW"]

\* next(p for p in project_scores if p['project_id'] == rec['project_id'])
RECURSIVE FirstWithId(_, _)
FirstWithId(scores, id) ==
    IF Head(scores).project_id = id THEN Head(scores)
    ELSE FirstWithId(Tail(scores), id)

\* The combined production series of the final metrics.
RECURSIVE TotalProduction(_, _, _)
TotalProduction(recs, scores, n_intervals) ==
    IF recs = <<>> THEN [i \in 1..n_intervals |-> 0]
    ELSE LET rec == recs[Len(recs)]
             before == TotalProduction(SubSeq(recs, 1, Len(recs) - 1), scores,
                                       n_intervals)
             project == FirstWithId(scores, rec.project_id)
             scaled_prod == Scaled(project.production_profile, rec.recommended_shares)
         IN  [i \in 1..n_intervals |-> before[i] + scaled_prod[i]]

RECURSIVE SumField(_, _)
SumField(recs, field) ==
    IF recs = <<>> THEN 0 ELSE recs[1][field] + SumField(Tail(recs), field)

\* The last recommendation of an energy type (a dict comprehension keeps the
\* last value written under a key).
RECURSIVE LastOfType(_, _)
LastOfType(recs, type) ==
    IF recs[Len(recs)].energy_type = type THEN recs[Len(recs)]
    ELSE LastOfType(SubSeq(recs, 1, Len(recs) - 1), type)

ByType(recs) ==
    [type \in {recs[i].energy_type : i \in 1..Len(recs)} |->
        LET rec == LastOfType(recs, type)
        IN  [shares |-> rec.recommended_shares,
             capacity |-> rec.capacity,
             unit |-> rec.capacity_unit]]

\* The returned dict.  Money is in cents (round(., 2)); payback_period_years is
\* <<>> for None and <<100 x years>> otherwise.
ResultOf(recs, scores, total_investment, baseline_cost, n_intervals, cp, price, tariff) ==
    LET final_metrics ==
            calculate_self_consumption_rate(
                cp, TotalProduction(recs, scores, n_intervals), 0)
        annual_grid_cost == final_metrics.grid_import_kwh * price
        annual_export_revenue == final_metrics.grid_export_kwh * tariff
        annual_savings == baseline_cost - annual_grid_cost + annual_export_revenue
    IN  [recommendations |-> recs,
         total_investment |-> 100 * total_investment,
         annual_savings |-> RoundHalfEven(annual_savings, 4),
         payback_period_years |->
             IF annual_savings > 0
             THEN <<RoundHalfEven(40000 * total_investment, annual_savings)>>
             ELSE <<>>,
         baseline_annual_cost |-> RoundHalfEven(baseline_cost, 4),
         new_annual_cost |-> RoundHalfEven(annual_grid_cost - annual_export_revenue, 4),
         energy_metrics |-> final_metrics,
         summary |-> [total_shares |-> SumField(recs, "recommended_shares"),
                      projects_count |-> Len(recs),
                      by_type |-> ByType(recs)]]

\* The greedy loop from the k-th scored project on: the recommendations, the
\* investment and the residual when it ends or breaks.
RECURSIVE GreedyLoop(_, _, _, _, _, _, _, _, _)
GreedyLoop(scores, k, recs, total, remaining, b, max_shares, price, tariff) ==
    IF k = Len(scores) \/ BudgetSpent(b, total)
    THEN [recommendations |-> recs, total_investment |-> total,
          remaining_consumption |-> remaining]
    ELSE LET project == scores[k + 1]
             best == ShareSearch(project, 1, [best_shares |-> 0, best_benefit |-> 0],
                                 remaining, total, b, max_shares, price, tariff)
             rec == Recommendation(project, best)
         IN  IF best.best_shares > 0
             THEN GreedyLoop(scores, k + 1, Append(recs, rec),
                             total + rec.investment_amount,
                             IF project.is_battery THEN remaining
                             ELSE Residual(remaining,
                                           Scaled(project.production_profile,
                                                  best.best_shares)),
                             b, max_shares, price, tariff)
             ELSE GreedyLoop(scores, k + 1, recs, total, remaining, b, max_shares,
                             price, tariff)

\* The returned dict of one whole call.
optimize_investment(cp, projects, price, tariff, b, max_shares) ==
    LET scores == SortByPayback(ScoreAll(projects, cp, price, tariff))
        loop == GreedyLoop(scores, 0, <<>>, 0, cp, b, max_shares, price, tariff)
    IN  ResultOf(loop.recommendations, scores, loop.total_investment,
                 SumSeq(cp) * price, Len(cp), cp, price, tariff)

\* remaining_consumption = consumption_profile.copy(): the loop writes to the
\* copy, and the caller's list keeps its value.
CallerListAliased(caller, written) == written

CallerListAfterWrite(caller, written) == caller

\* ------------------------------------------------ the simulator, stepwise

\* No portfolio request is in progress.
PortfolioIdle == portfolio = <<>>

\* No allocator call is in progress.
AllocIdle ==
    /\ consumption_profile = <<>>
    /\ available_projects = <<>>
    /\ electricity_price = 0
    /\ feed_in_tariff = 0
    /\ budget = <<>>
    /\ max_shares_per_project = 0
    /\ frame = <<>>

\* Two runs over the same series, the second with at least the capacity of the
\* first; both runs execute the same loop iteration in one step.
Runs == {1, 2}

SimInit ==
    /\ consumption \in SeqsUpTo(Samples, MaxLen)
    /\ production \in SeqsUpTo(Samples, MaxLen)
    /\ battery_capacity_kwh \in {b \in [Runs -> 0..MaxCap] : b[1] <= b[2]}
    /\ sim = [r \in Runs |-> [pc |-> "loop", i |-> 0, acc |-> SimStart,
                              result |-> "none"]]
    /\ AllocIdle
    /\ PortfolioIdle

SimInterval ==
    /\ \A r \in Runs : sim[r].pc = "loop" /\ sim[r].i < ZipLen(consumption, production)
    /\ sim' = [r \in Runs |->
                 [sim[r] EXCEPT
                    !.i = @ + 1,
                    !.acc = IntervalStep(@, consumption[sim[r].i + 1],
                                         production[sim[r].i + 1],
                                         battery_capacity_kwh[r])]]
    /\ UNCHANGED <<consumption, production, battery_capacity_kwh>>
    /\ UNCHANGED allocVars
    /\ UNCHANGED portfolioVars

SimReturn ==
    /\ \A r \in Runs : sim[r].pc = "loop" /\ sim[r].i = ZipLen(consumption, production)
    /\ sim' = [r \in Runs |->
                 [sim[r] EXCEPT
                    !.pc = "done",
                    !.result = Metrics(sim[r].acc, consumption, production)]]
    /\ UNCHANGED <<consumption, production, battery_capacity_kwh>>
    /\ UNCHANGED allocVars
    /\ UNCHANGED portfolioVars

SimNext == SimInterval \/ SimReturn

SimSpec == SimInit /\ [][SimNext]_vars

\* ------------------------------------------------ the allocator, stepwise

\* No simulator run is in progress.
SimIdle ==
    /\ consumption = <<>>
    /\ production = <<>>
    /\ battery_capacity_kwh = <<>>
    /\ sim = <<>>

\* A project dict as the route builds it (is_battery = (energy == 'battery')).
Project(id, price, capacity, profile, battery) ==
    [id |-> id,
     capacity_per_share |-> capacity,
     price_per_share |-> price,
     energy |-> IF battery THEN "battery" ELSE "solar",
     production_profile |-> profile,
     is_battery |-> battery]

\* The projects of a list, given the distinct ids "p1", "p2", ... in list order.
ProjectIds == <<"p1", "p2", "p3", "p4">>

Numbered(l) == [i \in 1..Len(l) |-> [l[i] EXCEPT !.id = ProjectIds[i]]]

\* The locals of an invocation that has not run a statement yet.
FrameStart ==
    [pc |-> "start", n_intervals |-> 0, baseline_cost |-> 0, project_scores |-> <<>>,
     k |-> 0, recommendations |-> <<>>, total_investment |-> 0,
     remaining_consumption |-> <<>>, result |-> "none"]

\* Invocations `frames` of optimize_investment on one set of arguments.
AllocInit(frames, profiles, catalogue, budgets, caps) ==
    /\ consumption_profile \in profiles
    /\ available_projects \in {Numbered(l) : l \in SeqsUpTo(catalogue, MaxProjects)}
    /\ electricity_price = 30
    /\ feed_in_tariff = 5
    /\ budget \in budgets
    /\ max_shares_per_project \in caps
    /\ frame = [f \in frames |-> FrameStart]
    /\ SimIdle
    /\ PortfolioIdle

\* Lines 104-191: baseline, scoring loop, sort, and the greedy loop's locals.
Score(f) ==
    /\ frame[f].pc = "start"
    /\ frame' = [frame EXCEPT ![f] =
           [@ EXCEPT
              !.pc = "alloc",
              !.n_intervals = Len(consumption_profile),
              !.baseline_cost = SumSeq(consumption_profile) * electricity_price,
              !.project_scores =
                  SortByPayback(ScoreAll(available_projects, consumption_profile,
                                         electricity_price, feed_in_tariff)),
              !.remaining_consumption = consumption_profile]]
    /\ UNCHANGED argVars
    /\ UNCHANGED simVars
    /\ UNCHANGED portfolioVars

\* Lines 193-271: one iteration of the greedy loop.
Allocate(f) ==
    /\ frame[f].pc = "alloc"
    /\ frame[f].k < Len(frame[f].project_scores)
    /\ ~BudgetSpent(budget, frame[f].total_investment)
    /\ LET fr == frame[f]
           project == fr.project_scores[fr.k + 1]
           best == ShareSearch(project, 1, [best_shares |-> 0, best_benefit |-> 0],
                               fr.remaining_consumption, fr.total_investment,
                               budget, max_shares_per_project,
                               electricity_price, feed_in_tariff)
           rec == Recommendation(project, best)
           remaining ==
               IF best.best_shares > 0 /\ ~project.is_battery
               THEN Residual(fr.remaining_consumption,
                             Scaled(project.production_profile, best.best_shares))
               ELSE fr.remaining_consumption
       IN  /\ frame' = [frame EXCEPT ![f] =
                  IF best.best_shares > 0
                  THEN [@ EXCEPT
                          !.k = @ + 1,
                          !.remaining_consumption = remaining,
                          !.recommendations = Append(@, rec),
                          !.total_investment = @ + rec.investment_amount]
                  ELSE [@ EXCEPT !.k = @ + 1]]
           /\ consumption_profile' =
                  IF best.best_shares > 0 /\ ~project.is_battery
                  THEN CallerListAfterWrite(consumption_profile, remaining)
                  ELSE consumption_profile
    /\ UNCHANGED <<available_projects, electricity_price, feed_in_tariff, budget,
                   max_shares_per_project>>
    /\ UNCHANGED simVars
    /\ UNCHANGED portfolioVars

\* Lines 273-311, entered when the greedy loop ends or breaks.
Finalize(f) ==
    /\ frame[f].pc = "alloc"
    /\ \/ frame[f].k = Len(frame[f].project_scores)
       \/ BudgetSpent(budget, frame[f].total_investment)
    /\ frame' = [frame EXCEPT ![f] =
           [@ EXCEPT
              !.pc = "done",
              !.result = ResultOf(frame[f].recommendations, frame[f].project_scores,
                                  frame[f].total_investment, frame[f].baseline_cost,
                                  frame[f].n_intervals, consumption_profile,
                                  electricity_price, feed_in_tariff)]]
    /\ UNCHANGED argVars
    /\ UNCHANGED simVars
    /\ UNCHANGED portfolioVars

ScoreStep == \E f \in DOMAIN frame : Score(f)

AllocateStep == \E f \in DOMAIN frame : Allocate(f)

FinalizeStep == \E f \in DOMAIN frame : Finalize(f)

AllocNext == ScoreStep \/ AllocateStep \/ FinalizeStep

ConsumptionProfiles == {<<>>, <<0, 0>>, <<1, 2>>}

\* Generation projects of 2 kW a share and battery projects of 10 kWh a share.
Projects(prices, profiles) ==
    {Project("p", price, IF battery THEN 10 ELSE 2, profile, battery) :
        price \in prices, profile \in profiles, battery \in BOOLEAN}

Catalogue == Projects({1, 2}, {<<>>, <<1, 0>>, <<2, 2>>})

\* No budget, or a budget of 0..MaxBudget.
Budgets == {<<>>} \cup {<<b>> : b \in 0..MaxBudget}

\* One invocation on valid parameters.
Init == AllocInit({1}, ConsumptionProfiles, Catalogue, Budgets, 1..MaxShares)

Spec == Init /\ [][AllocNext]_vars

\* As AllocInit, with the electricity price and the feed-in tariff drawn from sets.
AllocInitPriced(frames, profiles, catalogue, budgets, caps, prices, tariffs) ==
    /\ consumption_profile \in profiles
    /\ available_projects \in {Numbered(l) : l \in SeqsUpTo(catalogue, MaxProjects)}
    /\ electricity_price \in prices
    /\ feed_in_tariff \in tariffs
    /\ budget \in budgets
    /\ max_shares_per_project \in caps
    /\ frame = [f \in frames |-> FrameStart]
    /\ SimIdle
    /\ PortfolioIdle

\* One invocation on projects that may earn nothing: idle generation, a free
\* or a negative tariff, shares priced high against their benefit.
BenefitInit ==
    AllocInitPriced({1}, ConsumptionProfiles,
                    Projects({1, 20}, {<<0, 0>>, <<1, 0>>, <<2, 2>>}),
                    {<<>>, <<MaxBudget>>}, {MaxShares}, {0, 30}, {-5, 5})

BenefitSpec == BenefitInit /\ [][AllocNext]_vars

\* Four intervals at one level.
Flat(level) == <<level, level, level, level>>

\* One invocation on one solar project of price 100 without a budget, flat
\* consumption against flat production: consumption 4, production 4 per share,
\* tariff 5 and a cap of 5 shares is the worked case.
ExampleInit ==
    /\ consumption_profile \in {Flat(level) : level \in 0..4}
    /\ available_projects \in
           {Numbered(<<Project("p", 100, 1, Flat(level), FALSE)>>) : level \in {1, 2, 4}}
    /\ electricity_price = 30
    /\ feed_in_tariff \in {0, 5}
    /\ budget = <<>>
    /\ max_shares_per_project \in 1..5
    /\ frame = [f \in {1} |-> FrameStart]
    /\ SimIdle
    /\ PortfolioIdle

ExampleSpec == ExampleInit /\ [][AllocNext]_vars

\* The batteries on offer: 10 kWh at 2000 a share, 5 kWh at 20 a share, with a
\* profile of either length.
Batteries ==
    {Project("p", 2000, 10, profile, TRUE) : profile \in {<<>>, <<0, 0>>}}
        \cup {Project("p", 20, 5, profile, TRUE) : profile \in {<<>>, <<0, 0>>}}

\* The generation projects offered next to a battery.
Generators == {Project("p", 1, 2, profile, FALSE) : profile \in {<<1, 0>>, <<2, 2>>}}

\* One invocation on a battery, alone or next to a generation project.
BatteryInit ==
    /\ consumption_profile \in ConsumptionProfiles
    /\ available_projects \in
           {Numbered(<<b>>) : b \in Batteries}
               \cup {Numbered(<<b, g>>) : b \in Batteries, g \in Generators}
               \cup {Numbered(<<g, b>>) : b \in Batteries, g \in Generators}
    /\ electricity_price \in {20, 30}
    /\ feed_in_tariff = 5
    /\ budget \in {<<>>, <<2000 + MaxBudget>>}
    /\ max_shares_per_project \in 1..MaxShares
    /\ frame = [f \in {1} |-> FrameStart]
    /\ SimIdle
    /\ PortfolioIdle

BatterySpec == BatteryInit /\ [][AllocNext]_vars

\* One invocation with a free or a priced grid, with or without a feed-in
\* tariff, on a consumption that shares may or may not cover.
SharesInit ==
    AllocInitPriced({1}, {<<0, 0>>, <<1, 2>>, <<4, 4>>},
                    Projects({1}, {<<0, 0>>, <<1, 0>>, <<2, 2>>}),
                    {<<>>, <<MaxBudget>>}, 1..MaxShares, {0, 30}, {0, 5})

SharesSpec == SharesInit /\ [][AllocNext]_vars

\* Generation projects that share an id, 'unknown' standing for an omitted id.
SameIdCatalogue ==
    {Project(id, price, 2, profile, FALSE) :
        id \in {"p1", "unknown"}, price \in {1, 2},
        profile \in {<<1, 0>>, <<0, 2>>, <<2, 2>>}}

\* One invocation on a list whose ids need not differ.
SameIdInit ==
    /\ consumption_profile \in {<<0, 0>>, <<1, 2>>}
    /\ available_projects \in SeqsUpTo(SameIdCatalogue, MaxProjects)
    /\ electricity_price = 30
    /\ feed_in_tariff = 5
    /\ budget \in {<<>>, <<MaxBudget>>}
    /\ max_shares_per_project = MaxShares
    /\ frame = [f \in {1} |-> FrameStart]
    /\ SimIdle
    /\ PortfolioIdle

SameIdSpec == SameIdInit /\ [][AllocNext]_vars

\* ------------------------------------------- the route /optimize, stepwise

\* The series a load curve file or a production file may hold.
StoredConsumption == {<<>>, <<2>>, <<1, 2>>}

StoredProduction == {<<>>, <<1>>, <<2, 2>>, <<1, 0, 2>>}

\* production_profile[:min_length]
Truncated(production_profile, cp) ==
    SubSeq(production_profile, 1, Min(Len(production_profile), Len(cp)))

\* The request has been read and the load curve of the POD loaded (its file
\* exists); no entry of the projects list has been looked at.  frame[1].k
\* counts the entries of the projects list looked at so far.
RouteInit ==
    /\ consumption_profile \in StoredConsumption
    /\ available_projects = <<>>
    /\ electricity_price = 30
    /\ feed_in_tariff = 5
    /\ budget \in {<<>>, <<MaxBudget>>}
    /\ max_shares_per_project = MaxShares
    /\ frame = [f \in {1} |-> [FrameStart EXCEPT !.pc = "route"]]
    /\ SimIdle
    /\ PortfolioIdle

\* Lines 78-120: an entry of the projects list whose production file exists.
RouteProject(production_data, battery) ==
    /\ frame[1].pc = "route"
    /\ frame[1].k < MaxProjects
    /\ LET production_profile ==
               IF Len(production_data) # Len(consumption_profile)
               THEN Truncated(production_data, consumption_profile)
               ELSE production_data
       IN  available_projects' =
               Append(available_projects,
                      Project(ProjectIds[frame[1].k + 1], 1, IF battery THEN 10 ELSE 2,
                              production_profile, battery))
    /\ frame' = [frame EXCEPT ![1].k = @ + 1]
    /\ UNCHANGED <<consumption_profile, electricity_price, feed_in_tariff, budget,
                   max_shares_per_project>>
    /\ UNCHANGED simVars
    /\ UNCHANGED portfolioVars

\* Lines 78-83, 124-125: an entry whose production file is missing is skipped.
RouteSkip ==
    /\ frame[1].pc = "route"
    /\ frame[1].k < MaxProjects
    /\ frame' = [frame EXCEPT ![1].k = @ + 1]
    /\ UNCHANGED argVars
    /\ UNCHANGED simVars
    /\ UNCHANGED portfolioVars

\* Lines 129-133: no project was loaded, HTTP 404.
RouteReject ==
    /\ frame[1].pc = "route"
    /\ available_projects = <<>>
    /\ frame' = [frame EXCEPT ![1].pc = "http404"]
    /\ UNCHANGED argVars
    /\ UNCHANGED simVars
    /\ UNCHANGED portfolioVars

\* Lines 136-143: the call of optimize_investment on what was loaded.
RouteCall ==
    /\ frame[1].pc = "route"
    /\ available_projects # <<>>
    /\ frame' = [frame EXCEPT ![1] = FrameStart]
    /\ UNCHANGED argVars
    /\ UNCHANGED simVars
    /\ UNCHANGED portfolioVars

RouteProjectStep ==
    \E production_data \in StoredProduction, battery \in BOOLEAN :
        RouteProject(production_data, battery)

RouteNext ==
    RouteProjectStep \/ RouteSkip \/ RouteReject \/ RouteCall \/ AllocNext

RouteSpec == RouteInit /\ [][RouteNext]_vars

\* A negative price, or a share cap that is not positive.
InvalidInit ==
    AllocInit({1}, ConsumptionProfiles, Projects({-1, 1}, {<<1, 0>>, <<2, 2>>}),
              {<<>>, <<MaxBudget>>}, -1..1)

InvalidSpec == InvalidInit /\ [][AllocNext]_vars

\* Two invocations that share the caller's lists, interleaved at will.
ConcInit ==
    AllocInit({1, 2}, {<<0, 0>>, <<1, 2>>}, Projects({1}, {<<1, 0>>, <<2, 2>>}),
              {<<>>, <<MaxBudget>>}, {MaxShares})

ConcSpec == ConcInit /\ [][AllocNext]_vars

\* ------------------------------------------- get_user_portfolio, stepwise

\* The transactions a user's portfolio file may hold.
Transactions ==
    [project_id : {"p1", "p2"}, direction : {"buy", "sell"}, shares : 1..2,
     purchase_price_per_share : {1, 10}]

\* defaultdict(lambda: {'shares': 0, 'total_cost': 0, ...}); total_cost is the
\* fraction num / den, den > 0.
NoPosition == [shares |-> 0, total_cost |-> [num |-> 0, den |-> 1]]

PositionOf(grouped_investments, project_id) ==
    IF project_id \in DOMAIN grouped_investments
    THEN grouped_investments[project_id]
    ELSE NoPosition

\* shares += shares; total_cost += shares * price_per_share
Bought(position, shares, price_per_share) ==
    [shares |-> position.shares + shares,
     total_cost |->
         [num |-> position.total_cost.num
                      + shares * price_per_share * position.total_cost.den,
          den |-> position.total_cost.den]]

\* if shares > 0: avg_cost = total_cost / shares; shares -= sold;
\* total_cost -= sold * avg_cost
Sold(position, shares) ==
    IF position.shares > 0
    THEN [shares |-> position.shares - shares,
          total_cost |->
              [num |-> position.total_cost.num * (position.shares - shares),
               den |-> position.total_cost.den * position.shares]]
    ELSE position

\* The reported investments, in the order the projects were first seen; a
\* project without shares left is skipped.  total_cost_basis is kept unrounded.
RECURSIVE InvestmentsDetail(_, _)
InvestmentsDetail(order, grouped_investments) ==
    IF order = <<>> THEN <<>>
    ELSE LET project_data == grouped_investments[Head(order)]
         IN  (IF project_data.shares <= 0 THEN <<>>
              ELSE <<[project_id |-> Head(order),
                      shares |-> project_data.shares,
                      total_cost_basis |-> project_data.total_cost]>>)
                 \o InvestmentsDetail(Tail(order), grouped_investments)

\* sum(t['shares'] for t in transactions if t.get('direction') == 'buy')
RECURSIVE BoughtShares(_)
BoughtShares(transactions) ==
    IF transactions = <<>> THEN 0
    ELSE (IF Head(transactions).direction = "buy" THEN Head(transactions).shares
          ELSE 0) + BoughtShares(Tail(transactions))

\* The user's portfolio is loaded; no transaction has been replayed.
PortfolioInit ==
    /\ portfolio \in
           {[pc |-> "replay", transactions |-> t, n |-> 0,
             grouped_investments |-> <<>>, order |-> <<>>, result |-> "none"] :
               t \in SeqsUpTo(Transactions, MaxTransactions)}
    /\ SimIdle
    /\ AllocIdle

\* Lines 134-164: one transaction of the replay loop.
PortfolioReplay ==
    /\ portfolio # <<>>
    /\ portfolio.pc = "replay"
    /\ portfolio.n < Len(portfolio.transactions)
    /\ LET transaction == portfolio.transactions[portfolio.n + 1]
           project_id == transaction.project_id
           grouped == portfolio.grouped_investments
           position == PositionOf(grouped, project_id)
           after == IF transaction.direction = "buy"
                    THEN Bought(position, transaction.shares,
                                transaction.purchase_price_per_share)
                    ELSE Sold(position, transaction.shares)
       IN  portfolio' =
               [portfolio EXCEPT
                  !.n = @ + 1,
                  !.order = IF project_id \in DOMAIN grouped THEN @
                            ELSE Append(@, project_id),
                  !.grouped_investments =
                      [id \in DOMAIN grouped \cup {project_id} |->
                          IF id = project_id THEN after ELSE grouped[id]]]
    /\ UNCHANGED simVars
    /\ UNCHANGED allocVars

\* Lines 166-351: the positions are reported and summed up.
PortfolioReturn ==
    /\ portfolio # <<>>
    /\ portfolio.pc = "replay"
    /\ portfolio.n = Len(portfolio.transactions)
    /\ LET investments_detail ==
               InvestmentsDetail(portfolio.order, portfolio.grouped_investments)
       IN  portfolio' =
               [portfolio EXCEPT
                  !.pc = "done",
                  !.result =
                      [investments |-> investments_detail,
                       summary |->
                           [total_projects |-> Len(investments_detail),
                            total_shares |-> BoughtShares(portfolio.transactions)]]]
    /\ UNCHANGED simVars
    /\ UNCHANGED allocVars

PortfolioNext == PortfolioReplay \/ PortfolioReturn

PortfolioSpec == PortfolioInit /\ [][PortfolioNext]_vars

\* ------------------------------------------------ claims on the allocator

Done(f) == frame[f].pc = "done"

NonNegativePrices ==
    \A i \in 1..Len(available_projects) : available_projects[i].price_per_share >= 0

\* C1: with a finite budget (0 included) and non-negative share prices the
\* investment amounts of the recommendations sum to at most the budget.
C1_BudgetRespected ==
    \A f \in DOMAIN frame :
        (budget # <<>> /\ NonNegativePrices) =>
            SumField(frame[f].recommendations, "investment_amount") <= budget[1]

\* C6: the caller's consumption profile, project list and parameters are never
\* written, and two invocations on them, however interleaved, return the same
\* result.
C6_Deterministic ==
    [][/\ UNCHANGED argVars
       /\ (\A f \in DOMAIN frame : Done(f)') =>
              \A f, g \in DOMAIN frame : frame'[f].result = frame'[g].result]_vars

C6_Witness ==
    /\ Done(1) /\ Done(2)
    /\ Len(frame[1].result.recommendations) = 2
    /\ frame[1].remaining_consumption # consumption_profile
    /\ frame[2].remaining_consumption # consumption_profile

\* C8: when the project list is empty or every project is excluded by its
\* profile length, the call fails (NoEligibleProjects) and returns no result.
C8_NoEligibleProjectsRejected ==
    \A f \in DOMAIN frame :
        (frame[f].pc # "start" /\ frame[f].project_scores = <<>>) => ~Done(f)

InvalidParameter ==
    \/ max_shares_per_project <= 0
    \/ \E i \in 1..Len(available_projects) : available_projects[i].price_per_share < 0

\* C9: a negative price or a share cap <= 0 is rejected (InvalidParameter)
\* before any simulation runs: the call neither scores a project nor returns.
C9_InvalidParameterRejected ==
    \A f \in DOMAIN frame : InvalidParameter => frame[f].pc = "start"

\* C10: every recommendation has 1 <= recommended_shares <= max_shares_per_project,
\* investment_amount = recommended_shares x price_per_share and
\* capacity = recommended_shares x capacity_per_share of its project.
C10_RecommendationShape ==
    \A f \in DOMAIN frame :
        \A j \in 1..Len(frame[f].recommendations) :
            LET rec == frame[f].recommendations[j]
                project == CHOOSE p \in {available_projects[i] :
                                            i \in 1..Len(available_projects)} :
                               p.id = rec.project_id
            IN  /\ rec.recommended_shares \in 1..max_shares_per_project
                /\ rec.investment_amount
                       = rec.recommended_shares * project.price_per_share
                /\ rec.capacity = rec.recommended_shares * project.capacity_per_share

C10_Witness ==
    /\ Done(1)
    /\ Len(frame[1].result.recommendations) = 2
    /\ \E j \in 1..2 : frame[1].result.recommendations[j].capacity_unit = "kWh"
    /\ \E j \in 1..2 : /\ frame[1].result.recommendations[j].capacity_unit = "kW"
                       /\ frame[1].result.recommendations[j].recommended_shares >= 2
                       /\ frame[1].result.recommendations[j].investment_amount >= 4

\* The place of a project in the input list and in the sorted scores.
IndexOfId(id) == CHOOSE i \in 1..Len(ProjectIds) : ProjectIds[i] = id

PlaceOfId(scores, id) == CHOOSE i \in 1..Len(scores) : scores[i].project_id = id

\* C11: the scored projects carry the one-share payback against the original
\* consumption and stand in ascending payback order, equal paybacks in input
\* order; the recommendations follow that order.
C11_PaybackOrder ==
    \A f \in DOMAIN frame :
        frame[f].pc # "start" =>
            LET scores == frame[f].project_scores
                recs == frame[f].recommendations
            IN  /\ \A i \in 1..Len(scores) :
                       scores[i].payback_years =
                           ScoreOf(available_projects[IndexOfId(scores[i].project_id)],
                                   consumption_profile, electricity_price,
                                   feed_in_tariff).payback_years
                /\ \A i, j \in 1..Len(scores) :
                       i < j =>
                           /\ ~PaybackLess(scores[j].payback_years,
                                           scores[i].payback_years)
                           /\ ~PaybackLess(scores[i].payback_years,
                                           scores[j].payback_years)
                                  => IndexOfId(scores[i].project_id)
                                         < IndexOfId(scores[j].project_id)
                /\ \A a, b \in 1..Len(recs) :
                       a < b => PlaceOfId(scores, recs[a].project_id)
                                    < PlaceOfId(scores, recs[b].project_id)

C11_Witness ==
    /\ Done(1)
    /\ Len(frame[1].project_scores) = 2
    /\ frame[1].project_scores[1].project_id = "p2"
    /\ PaybackLess(frame[1].project_scores[1].payback_years,
                   frame[1].project_scores[2].payback_years)
    /\ Len(frame[1].result.recommendations) = 2
    /\ frame[1].result.recommendations[1].project_id = "p2"

\* No share count of the project at turn earns a positive benefit.
EarnsNothing(f) ==
    \A shares \in 1..max_shares_per_project :
        SharesBenefit(frame[f].project_scores[frame[f].k + 1], shares,
                      frame[f].remaining_consumption, electricity_price,
                      feed_in_tariff) <= 0

\* C12: every recommendation has annual_benefit > 0, and a project whose
\* benefit is zero or negative for every candidate share count is passed over:
\* the loop moves on without a recommendation and without an error.
C12_PositiveBenefitOnly ==
    [][\A f \in DOMAIN frame :
           /\ \A j \in 1..Len(frame'[f].recommendations) :
                  frame'[f].recommendations[j].annual_benefit > 0
           /\ (frame'[f].k = frame[f].k + 1 /\ EarnsNothing(f)) =>
                  /\ frame'[f].recommendations = frame[f].recommendations
                  /\ frame'[f].pc = "alloc"]_vars

C12_Witness ==
    /\ Done(1)
    /\ Len(frame[1].project_scores) = 2
    /\ Len(frame[1].result.recommendations) = 1
    /\ \E i \in 1..2 :
           /\ frame[1].project_scores[i].annual_benefit < 0
           /\ frame[1].result.recommendations[1].project_id
                  # frame[1].project_scores[i].project_id

\* The recommendations of the generation projects.
RECURSIVE GenerationRecs(_, _)
GenerationRecs(recs, scores) ==
    IF recs = <<>> THEN <<>>
    ELSE (IF FirstWithId(scores, recs[1].project_id).is_battery THEN <<>>
          ELSE <<recs[1]>>) \o GenerationRecs(Tail(recs), scores)

\* C13: energy_metrics is one simulator pass over the original consumption
\* against the summed recommended_shares x production_profile of the non-battery
\* recommendations only; a recommended battery adds nothing to the series.
C13_MetricsFromGenerationOnly ==
    \A f \in DOMAIN frame :
        Done(f) =>
            frame[f].result.energy_metrics =
                calculate_self_consumption_rate(
                    consumption_profile,
                    TotalProduction(
                        GenerationRecs(frame[f].result.recommendations,
                                       frame[f].project_scores),
                        frame[f].project_scores, frame[f].n_intervals),
                    0)

\* The worked case: consumption [4,4,4,4], production [4,4,4,4] per share, price
\* 100, electricity 0.30, feed-in 0.05, no budget, at most 5 shares.
IsExample ==
    /\ consumption_profile = Flat(4)
    /\ available_projects = Numbered(<<Project("p", 100, 1, Flat(4), FALSE)>>)
    /\ electricity_price = 30
    /\ feed_in_tariff = 5
    /\ budget = <<>>
    /\ max_shares_per_project = 5

\* The share count recommended for the only project, 0 when there is none.
SharesChosen(f) ==
    IF frame[f].result.recommendations = <<>> THEN 0
    ELSE frame[f].result.recommendations[1].recommended_shares

\* The first share count at which flat production covers flat consumption.
SharesToCover ==
    LET per_share == available_projects[1].production_profile[1]
    IN  (consumption_profile[1] + per_share - 1) \div per_share

\* C14 as stated: in the worked case the share search selects 4 shares.
C14_ExampleSelectsFour ==
    \A f \in DOMAIN frame : (Done(f) /\ IsExample) => SharesChosen(f) = 4

\* C14: the share search keeps the share count of the highest annual benefit.
\* In the worked case that is 5 shares, the cap: one share already covers the
\* consumption and every further share adds export revenue.  With a positive
\* feed-in tariff the cap is chosen; with a feed-in tariff of 0 the first count
\* that covers the consumption is chosen (none when there is no consumption).
C14_ExampleSelectsHighestBenefit ==
    \A f \in DOMAIN frame :
        Done(f) =>
            /\ IsExample =>
                   /\ SharesChosen(f) = 5
                   /\ frame[f].result.recommendations[1].annual_benefit = 800
            /\ feed_in_tariff > 0 => SharesChosen(f) = max_shares_per_project
            /\ feed_in_tariff = 0 =>
                   SharesChosen(f) = Min(max_shares_per_project, SharesToCover)

C14_Witness ==
    /\ Done(1)
    /\ IsExample
    /\ SharesChosen(1) = 5

\* C17: a project whose one-share annual benefit is not positive stands after
\* every project with a positive annual benefit in the processing order.
C17_SentinelSortsLast ==
    \A f \in DOMAIN frame :
        frame[f].pc # "start" =>
            \A i, j \in 1..Len(frame[f].project_scores) :
                (/\ frame[f].project_scores[i].annual_benefit <= 0
                 /\ frame[f].project_scores[j].annual_benefit > 0) => j < i

\* The projects whose production_profile has the length of the consumption.
RECURSIVE LengthMatched(_, _)
LengthMatched(projects, cp) ==
    IF projects = <<>> THEN <<>>
    ELSE (IF Len(Head(projects).production_profile) = Len(cp)
          THEN <<Head(projects)>> ELSE <<>>) \o LengthMatched(Tail(projects), cp)

\* C18: a project whose production_profile length differs from the consumption
\* length is dropped without an error: it is in no recommendation, and the call
\* returns what it returns on the list without that project.
C18_MismatchedDropped ==
    \A f \in DOMAIN frame :
        Done(f) =>
            /\ \A i \in 1..Len(available_projects) :
                   Len(available_projects[i].production_profile)
                           # Len(consumption_profile) =>
                       \A j \in 1..Len(frame[f].result.recommendations) :
                           frame[f].result.recommendations[j].project_id
                               # available_projects[i].id
            /\ frame[f].result =
                   optimize_investment(
                       consumption_profile,
                       LengthMatched(available_projects, consumption_profile),
                       electricity_price, feed_in_tariff, budget,
                       max_shares_per_project)

\* A mismatched project ahead of a matched one that is recommended.
C18_Witness ==
    /\ Done(1)
    /\ Len(available_projects) = 2
    /\ Len(available_projects[1].production_profile) # Len(consumption_profile)
    /\ Len(available_projects[1].production_profile) > 0
    /\ Len(frame[1].result.recommendations) = 1
    /\ frame[1].result.recommendations[1].project_id = "p2"

\* C19: a battery project is scored whatever its production_profile is, absent
\* (the empty default), empty or of any length.
C19_BatteryProfileIrrelevant ==
    \A f \in DOMAIN frame :
        frame[f].pc # "start" =>
            \A i \in 1..Len(available_projects) :
                available_projects[i].is_battery =>
                    \E j \in 1..Len(frame[f].project_scores) :
                        frame[f].project_scores[j].project_id = available_projects[i].id

\* The production accepted so far from generation projects, per interval.
AcceptedGeneration(fr) ==
    TotalProduction(GenerationRecs(fr.recommendations, fr.project_scores),
                    fr.project_scores, fr.n_intervals)

\* C20: after each accepted project, residual[i] = max(0, consumption[i] - sum
\* of recommended_shares x production[i] over the generation projects accepted
\* so far), so 0 <= residual[i] <= consumption[i]; accepting a battery leaves
\* the residual unchanged, and a generation project's share search is simulated
\* against the residual left by the projects accepted before it.
C20_ResidualConsumption ==
    [][\A f \in DOMAIN frame :
           LET fr == frame[f]
               after == frame'[f]
           IN  /\ after.pc # "start" =>
                      /\ Len(after.remaining_consumption) = Len(consumption_profile)
                      /\ \A i \in 1..Len(consumption_profile) :
                             /\ after.remaining_consumption[i] =
                                    Max(0, consumption_profile[i]
                                               - AcceptedGeneration(after)[i])
                             /\ 0 <= after.remaining_consumption[i]
                             /\ after.remaining_consumption[i] <= consumption_profile[i]
               /\ Len(after.recommendations) = Len(fr.recommendations) + 1 =>
                      LET rec == after.recommendations[Len(after.recommendations)]
                          project == FirstWithId(fr.project_scores, rec.project_id)
                      IN  IF project.is_battery
                          THEN after.remaining_consumption = fr.remaining_consumption
                          ELSE rec.annual_benefit =
                                   GenerationBenefit(
                                       calculate_self_consumption_rate(
                                           fr.remaining_consumption,
                                           Scaled(project.production_profile,
                                                  rec.recommended_shares), 0),
                                       electricity_price, feed_in_tariff)]_vars

\* Two generation projects accepted, the floor acting in an interval where
\* the accepted production exceeds the consumption, and the second project
\* earning less against the residual than its score against the consumption.
C20_Witness ==
    /\ frame[1].pc = "alloc"
    /\ Len(frame[1].recommendations) = 2
    /\ GenerationRecs(frame[1].recommendations, frame[1].project_scores)
           = frame[1].recommendations
    /\ \E i \in 1..Len(consumption_profile) :
           /\ AcceptedGeneration(frame[1])[i] > consumption_profile[i]
           /\ frame[1].remaining_consumption[i] = 0
    /\ frame[1].recommendations[2].annual_benefit
           < FirstWithId(frame[1].project_scores,
                         frame[1].recommendations[2].project_id).annual_benefit

\* The share counts of the project at turn whose cumulative investment fits the
\* budget.
FittingShares(f) ==
    {shares \in 1..max_shares_per_project :
        \/ budget = <<>>
        \/ frame[f].total_investment
               + shares * frame[f].project_scores[frame[f].k + 1].price_per_share
             <= budget[1]}

\* annual_benefit of a share count of the project at turn.
BenefitAtTurn(f, shares) ==
    SharesBenefit(frame[f].project_scores[frame[f].k + 1], shares,
                  frame[f].remaining_consumption, electricity_price, feed_in_tariff)

\* The share count the claim names: the smallest fitting count of the highest
\* benefit.
IsSmallestBest(f, shares) ==
    /\ shares \in FittingShares(f)
    /\ \A other \in FittingShares(f) :
           /\ BenefitAtTurn(f, other) <= BenefitAtTurn(f, shares)
           /\ other < shares => BenefitAtTurn(f, other) < BenefitAtTurn(f, shares)

\* C21: the share search looks at every share count in 1..max_shares_per_project
\* whose cumulative investment fits the budget, and recommends the smallest one
\* of the highest annual benefit.
C21_SmallestBestFittingShares ==
    [][\A f \in DOMAIN frame :
           Len(frame'[f].recommendations) = Len(frame[f].recommendations) + 1 =>
               IsSmallestBest(
                   f,
                   frame'[f].recommendations[Len(frame'[f].recommendations)]
                       .recommended_shares)]_vars

\* The same with the budgets the code takes as budgets: none, or above 0.
C21_TruthyBudget ==
    [][\A f \in DOMAIN frame :
           (Len(frame'[f].recommendations) = Len(frame[f].recommendations) + 1
            /\ (budget = <<>> \/ budget[1] > 0)) =>
               IsSmallestBest(
                   f,
                   frame'[f].recommendations[Len(frame'[f].recommendations)]
                       .recommended_shares)]_vars

\* C22: the annual benefit of s shares of a battery is
\* s x capacity_per_share x 365 x 0.8 x 0.5 x electricity_price, whatever the
\* consumption, the residual and the projects accepted before it are; 10 kWh at
\* 2000 a share and electricity at 0.30 give 438 and a payback of 2000/438.
C22_BatteryClosedForm ==
    \A f \in DOMAIN frame :
        frame[f].pc # "start" =>
            /\ \A i \in 1..Len(frame[f].project_scores) :
                   LET score == frame[f].project_scores[i]
                   IN  score.is_battery =>
                           /\ 10 * score.annual_benefit =
                                  score.capacity_per_share * 365 * 16 * electricity_price
                           /\ (/\ score.capacity_per_share = 10
                               /\ score.price_per_share = 2000
                               /\ electricity_price = 30) =>
                                  /\ score.annual_benefit = 400 * 438
                                  /\ score.payback_years.num * 438
                                         = score.payback_years.den * 2000
            /\ \A j \in 1..Len(frame[f].recommendations) :
                   LET rec == frame[f].recommendations[j]
                       score == FirstWithId(frame[f].project_scores, rec.project_id)
                   IN  score.is_battery =>
                           10 * rec.annual_benefit =
                               rec.recommended_shares * score.capacity_per_share
                                   * 365 * 16 * electricity_price

\* The 10 kWh battery at 2000 a share, taken with two shares after a generation
\* project has lowered the residual.
C22_Witness ==
    /\ Done(1)
    /\ electricity_price = 30
    /\ consumption_profile = <<1, 2>>
    /\ Len(frame[1].recommendations) = 2
    /\ frame[1].remaining_consumption # consumption_profile
    /\ frame[1].recommendations[2].energy_type = "battery"
    /\ frame[1].recommendations[2].investment_amount = 4000
    /\ frame[1].recommendations[2].annual_benefit = 2 * 400 * 438

\* C23: every project the route hands to optimize_investment has a production
\* profile exactly as long as the consumption profile it hands over.
C23_RouteHandsEqualLengths ==
    \A f \in DOMAIN frame :
        frame[f].pc \in {"start", "alloc", "done"} =>
            \A i \in 1..Len(available_projects) :
                Len(available_projects[i].production_profile)
                    = Len(consumption_profile)

\* The greedy loop takes the generation project at turn, without a budget, with
\* a feed-in tariff above 0 and a production sample above 0.
GenerationTurn(f) ==
    /\ frame'[f].k = frame[f].k + 1
    /\ ~frame[f].project_scores[frame[f].k + 1].is_battery
    /\ budget = <<>>
    /\ feed_in_tariff > 0
    /\ \E i \in 1..Len(frame[f].project_scores[frame[f].k + 1].production_profile) :
           frame[f].project_scores[frame[f].k + 1].production_profile[i] > 0

\* The turn has appended a recommendation of max_shares_per_project shares.
TakesAllShares(f) ==
    /\ Len(frame'[f].recommendations) = Len(frame[f].recommendations) + 1
    /\ frame'[f].recommendations[Len(frame'[f].recommendations)].recommended_shares
           = max_shares_per_project

\* C26 as stated: with no budget, a feed-in tariff above 0 and a production
\* sample above 0 the recommended share count is max_shares_per_project.
C26_AlwaysAllShares ==
    [][\A f \in DOMAIN frame : GenerationTurn(f) => TakesAllShares(f)]_vars

\* C26: the annual benefit of a generation project is non-decreasing in the
\* share count; with no budget, a feed-in tariff above 0 and a production sample
\* above 0 the project gets max_shares_per_project shares when that many shares
\* earn anything, which they do when the electricity price is above 0, and no
\* recommendation otherwise.
C26_AllSharesWhenEarning ==
    [][\A f \in DOMAIN frame :
           /\ (frame'[f].k = frame[f].k + 1
               /\ ~frame[f].project_scores[frame[f].k + 1].is_battery) =>
                  \A shares \in 1..(max_shares_per_project - 1) :
                      BenefitAtTurn(f, shares) <= BenefitAtTurn(f, shares + 1)
           /\ GenerationTurn(f) =>
                  /\ electricity_price > 0 =>
                         BenefitAtTurn(f, max_shares_per_project) > 0
                  /\ IF BenefitAtTurn(f, max_shares_per_project) > 0
                     THEN TakesAllShares(f)
                     ELSE frame'[f].recommendations = frame[f].recommendations]_vars

\* A second generation project takes every share against a residual that the
\* first has lowered.
C26_Witness ==
    /\ frame[1].pc = "alloc"
    /\ budget = <<>>
    /\ feed_in_tariff > 0
    /\ max_shares_per_project = MaxShares
    /\ Len(frame[1].recommendations) = 2
    /\ GenerationRecs(frame[1].recommendations, frame[1].project_scores)
           = frame[1].recommendations
    /\ frame[1].recommendations[2].recommended_shares = MaxShares
    /\ frame[1].remaining_consumption # consumption_profile

\* annual_savings before rounding, from the returned metrics:
\* baseline_cost - annual_grid_cost + annual_export_revenue.
UnroundedSavings(f) ==
    frame[f].baseline_cost
        - frame[f].result.energy_metrics.grid_import_kwh * electricity_price
        + frame[f].result.energy_metrics.grid_export_kwh * feed_in_tariff

\* C27: the unrounded annual_savings is the sum of annual_benefit over the
\* recommended generation projects; the annual_benefit of a recommended battery
\* is no part of it.
C27_SavingsAreGenerationBenefits ==
    \A f \in DOMAIN frame :
        Done(f) =>
            UnroundedSavings(f) =
                SumField(GenerationRecs(frame[f].result.recommendations,
                                        frame[f].project_scores),
                         "annual_benefit")

\* The same when no recommended battery carries production.
C27_IdleBatteries ==
    \A f \in DOMAIN frame :
        (/\ Done(f)
         /\ \A i \in 1..Len(available_projects) :
                available_projects[i].is_battery =>
                    \A j \in 1..Len(available_projects[i].production_profile) :
                        available_projects[i].production_profile[j] = 0) =>
            UnroundedSavings(f) =
                SumField(GenerationRecs(frame[f].result.recommendations,
                                        frame[f].project_scores),
                         "annual_benefit")

\* The greedy loop replayed from the k-th scored project on, summing for each
\* accepted project its own production_profile times the shares it was given.
RECURSIVE OwnProduction(_, _, _, _, _, _, _, _)
OwnProduction(scores, k, total, remaining, b, max_shares, price, tariff) ==
    IF k = Len(scores) \/ BudgetSpent(b, total)
    THEN [i \in 1..Len(remaining) |-> 0]
    ELSE LET project == scores[k + 1]
             best == ShareSearch(project, 1, [best_shares |-> 0, best_benefit |-> 0],
                                 remaining, total, b, max_shares, price, tariff)
             own == Scaled(project.production_profile, best.best_shares)
             rest == OwnProduction(
                         scores, k + 1,
                         total + best.best_shares * project.price_per_share,
                         IF best.best_shares > 0 /\ ~project.is_battery
                         THEN Residual(remaining, own) ELSE remaining,
                         b, max_shares, price, tariff)
         IN  [i \in 1..Len(remaining) |-> own[i] + rest[i]]

\* C28: the combined production series of the final metrics holds, for each
\* recommendation, the production profile of the very project recommended times
\* its shares, also when input projects share an id or omit it.
C28_OwnProfileInFinalMetrics ==
    \A f \in DOMAIN frame :
        Done(f) =>
            frame[f].result.energy_metrics =
                calculate_self_consumption_rate(
                    consumption_profile,
                    OwnProduction(frame[f].project_scores, 0, 0, consumption_profile,
                                  budget, max_shares_per_project, electricity_price,
                                  feed_in_tariff),
                    0)

\* The sum of a field over the entries of by_type.
RECURSIVE SumByType(_, _, _)
SumByType(by_type, types, field) ==
    IF types = {} THEN 0
    ELSE LET type == CHOOSE t \in types : TRUE
         IN  by_type[type][field] + SumByType(by_type, types \ {type}, field)

\* C29: the shares under by_type sum to summary.total_shares and the by_type
\* capacities sum to the recommended capacity, several projects of one
\* energy_type included.
C29_ByTypeAddsUp ==
    \A f \in DOMAIN frame :
        Done(f) =>
            LET summary == frame[f].result.summary
            IN  /\ SumByType(summary.by_type, DOMAIN summary.by_type, "shares")
                       = summary.total_shares
                /\ SumByType(summary.by_type, DOMAIN summary.by_type, "capacity")
                       = SumField(frame[f].result.recommendations, "capacity")

\* ------------------------------------------------ claims on the simulator

SimDone(r) == sim[r].pc = "done"

EqualLength == Len(consumption) = Len(production)

AllZero(s) == \A i \in 1..Len(s) : s[i] = 0

\* C2: for equal-length series and every battery capacity the returned metrics
\* satisfy self_consumed_kwh + grid_export_kwh = total_production_kwh and
\* self_consumed_kwh + grid_import_kwh = total_consumption_kwh.
C2_EnergyConservation ==
    \A r \in Runs :
        (SimDone(r) /\ EqualLength) =>
            /\ sim[r].result.self_consumed_kwh + sim[r].result.grid_export_kwh
                   = sim[r].result.total_production_kwh
            /\ sim[r].result.self_consumed_kwh + sim[r].result.grid_import_kwh
                   = sim[r].result.total_consumption_kwh

\* C3 as stated: with production equal to consumption and no battery, every
\* series (the empty and the all-zero ones included) gives both rates 100 % and
\* no import or export.
C3_IdenticalSeriesAlwaysFull ==
    \A r \in Runs :
        (SimDone(r) /\ production = consumption /\ battery_capacity_kwh[r] = 0) =>
            /\ sim[r].result.self_consumption_rate = 10000
            /\ sim[r].result.autarky_rate = 10000
            /\ sim[r].result.grid_import_kwh = 0
            /\ sim[r].result.grid_export_kwh = 0

\* C3 amended: with production equal to consumption and no battery, import and
\* export are 0; both rates are 100 % when the series has a positive total and
\* 0 when it is empty or all zero.
C3_IdenticalSeries ==
    \A r \in Runs :
        (SimDone(r) /\ production = consumption /\ battery_capacity_kwh[r] = 0) =>
            /\ sim[r].result.grid_import_kwh = 0
            /\ sim[r].result.grid_export_kwh = 0
            /\ sim[r].result.self_consumption_rate
                   = IF AllZero(consumption) THEN 0 ELSE 10000
            /\ sim[r].result.autarky_rate
                   = IF AllZero(consumption) THEN 0 ELSE 10000

C3_Witness ==
    /\ SimDone(1)
    /\ production = consumption
    /\ battery_capacity_kwh[1] = 0
    /\ Len(consumption) = MaxLen
    /\ ~AllZero(consumption)
    /\ sim[1].result.self_consumption_rate = 10000

\* C4: with an all-zero production series as long as the consumption series,
\* nothing is self-consumed, the whole consumption is imported, nothing is
\* exported and the self-consumption rate is 0, whatever the battery capacity.
C4_ZeroProduction ==
    \A r \in Runs :
        (SimDone(r) /\ EqualLength /\ AllZero(production)) =>
            /\ sim[r].result.self_consumed_kwh = 0
            /\ sim[r].result.grid_import_kwh = sim[r].result.total_consumption_kwh
            /\ sim[r].result.grid_export_kwh = 0
            /\ sim[r].result.self_consumption_rate = 0

C4_Witness ==
    /\ SimDone(2)
    /\ EqualLength
    /\ AllZero(production)
    /\ Len(consumption) = MaxLen
    /\ battery_capacity_kwh[2] > 0
    /\ sim[2].result.grid_import_kwh > 0

\* C5: of two runs on the same series, the one with the larger battery never
\* reports the lower self_consumption_rate.
C5_BatteryMonotone ==
    (SimDone(1) /\ SimDone(2)) =>
        sim[2].result.self_consumption_rate >= sim[1].result.self_consumption_rate

C5_Witness ==
    /\ SimDone(1) /\ SimDone(2)
    /\ battery_capacity_kwh[1] < battery_capacity_kwh[2]
    /\ sim[2].result.grid_export_kwh < sim[1].result.grid_export_kwh
    /\ sim[2].result.grid_import_kwh < sim[1].result.grid_import_kwh
    /\ sim[1].result.self_consumption_rate > 0

\* C15: the battery level starts at 0 and stays within 0..capacity after every
\* interval.
C15_BatteryLevelBounded ==
    \A r \in DOMAIN sim :
        /\ sim[r].i = 0 => sim[r].acc.battery_level = 0
        /\ 0 <= sim[r].acc.battery_level
        /\ sim[r].acc.battery_level <= battery_capacity_kwh[r]

\* A surplus above the capacity has filled the battery to the capacity.
C15_Witness ==
    \E r \in DOMAIN sim :
        /\ sim[r].i = 1
        /\ battery_capacity_kwh[r] > 0
        /\ production[1] - consumption[1] > battery_capacity_kwh[r]
        /\ sim[r].acc.battery_level = battery_capacity_kwh[r]

\* The sum of charge_amount over the first n intervals of a pass.
RECURSIVE ChargedTotal(_, _, _, _)
ChargedTotal(c, p, cap, n) ==
    IF n = 0 THEN 0
    ELSE ChargedTotal(c, p, cap, n - 1)
             + (IF p[n] - c[n] >= 0
                THEN ChargeAmount(SimAfter(c, p, cap, n - 1), p[n] - c[n], cap)
                ELSE 0)

\* The sum of discharge_amount over the first n intervals of a pass.
RECURSIVE DischargedTotal(_, _, _, _)
DischargedTotal(c, p, cap, n) ==
    IF n = 0 THEN 0
    ELSE DischargedTotal(c, p, cap, n - 1)
             + (IF p[n] - c[n] < 0
                THEN DischargeAmount(SimAfter(c, p, cap, n - 1), c[n] - p[n], cap)
                ELSE 0)

\* C16: after every interval, charged - discharged is the battery level, and
\* the running totals satisfy production = self_consumed + charged + exported
\* and consumption = self_consumed + discharged + imported.
C16_BatteryBalance ==
    \A r \in DOMAIN sim :
        LET n == sim[r].i
            acc == sim[r].acc
            charged == ChargedTotal(consumption, production, battery_capacity_kwh[r], n)
            discharged ==
                DischargedTotal(consumption, production, battery_capacity_kwh[r], n)
        IN  /\ charged - discharged = acc.battery_level
            /\ SumSeq(SubSeq(production, 1, n))
                   = acc.self_consumed + charged + acc.grid_export
            /\ SumSeq(SubSeq(consumption, 1, n))
                   = acc.self_consumed + discharged + acc.grid_import

\* A pass that has charged, then discharged a part of the charge.
C16_Witness ==
    \E r \in DOMAIN sim :
        /\ sim[r].i = 2
        /\ DischargedTotal(consumption, production, battery_capacity_kwh[r], 2) > 0
        /\ sim[r].acc.battery_level > 0

\* The sum of min(consumption[i], production[i]) over the first n pairs.
RECURSIVE DirectUse(_, _, _)
DirectUse(c, p, n) ==
    IF n = 0 THEN 0 ELSE DirectUse(c, p, n - 1) + Min(c[n], p[n])

\* C24: self_consumed_kwh, self_consumption_rate and autarky_rate are the same
\* for every battery capacity (self_consumed counts min(consumption[i],
\* production[i]) per interval, energy from the battery is never added), and
\* both rates lie in 0..100.
C24_BatteryBlindSelfConsumption ==
    \A r \in DOMAIN sim :
        /\ sim[r].acc.self_consumed = DirectUse(consumption, production, sim[r].i)
        /\ SimDone(r) =>
               /\ sim[r].result.self_consumed_kwh
                      = DirectUse(consumption, production,
                                  ZipLen(consumption, production))
               /\ sim[r].result.self_consumption_rate \in 0..10000
               /\ sim[r].result.autarky_rate \in 0..10000
               /\ \A q \in DOMAIN sim :
                      SimDone(q) =>
                          /\ sim[q].result.self_consumed_kwh
                                 = sim[r].result.self_consumed_kwh
                          /\ sim[q].result.self_consumption_rate
                                 = sim[r].result.self_consumption_rate
                          /\ sim[q].result.autarky_rate = sim[r].result.autarky_rate

\* Two finished runs, one without a battery and one whose battery has fed the
\* load, with rates strictly between 0 and 100.
C24_Witness ==
    /\ SimDone(1) /\ SimDone(2)
    /\ battery_capacity_kwh[1] = 0
    /\ DischargedTotal(consumption, production, battery_capacity_kwh[2],
                       ZipLen(consumption, production)) > 0
    /\ sim[2].result.autarky_rate > 0
    /\ sim[2].result.autarky_rate < 10000
    /\ sim[2].result.self_consumption_rate < 10000

\* C25: of two runs on the same series with capacities b1 <= b2, after every
\* interval the b2 run has at least the battery level of the b1 run and at most
\* its accumulated grid import and grid export.
C25_LargerBatteryDominates ==
    \A r, q \in DOMAIN sim :
        battery_capacity_kwh[r] <= battery_capacity_kwh[q] =>
            /\ sim[q].acc.battery_level >= sim[r].acc.battery_level
            /\ sim[q].acc.grid_import <= sim[r].acc.grid_import
            /\ sim[q].acc.grid_export <= sim[r].acc.grid_export

\* Two batteries of different size, the larger one ahead in all three.
C25_Witness ==
    /\ sim # <<>>
    /\ sim[1].i = MaxLen
    /\ 0 < battery_capacity_kwh[1]
    /\ battery_capacity_kwh[1] < battery_capacity_kwh[2]
    /\ sim[2].acc.grid_export < sim[1].acc.grid_export
    /\ sim[2].acc.grid_import < sim[1].acc.grid_import

\* C7: series of different lengths are rejected (LengthMismatch); the call
\* never returns metrics for them.
C7_LengthMismatchRejected ==
    (Len(consumption) # Len(production)) => \A r \in Runs : ~SimDone(r)

\* ------------------------------------------------ claims on the portfolio

\* C30: while the transactions of a project are replayed its share count and
\* cost basis never become negative; every reported investment has shares > 0
\* and total_cost_basis >= 0, and summary.total_shares is the sum of the shares
\* of the reported investments.
C30_PositionsNeverNegative ==
    portfolio # <<>> =>
        /\ \A id \in DOMAIN portfolio.grouped_investments :
               /\ portfolio.grouped_investments[id].shares >= 0
               /\ portfolio.grouped_investments[id].total_cost.num >= 0
        /\ portfolio.pc = "done" =>
               /\ \A i \in 1..Len(portfolio.result.investments) :
                      /\ portfolio.result.investments[i].shares > 0
                      /\ portfolio.result.investments[i].total_cost_basis.num >= 0
               /\ portfolio.result.summary.total_shares
                      = SumField(portfolio.result.investments, "shares")

\* The part of it that the code keeps: no reported investment is without shares.
C30_ReportedHoldShares ==
    (portfolio # <<>> /\ portfolio.pc = "done") =>
        \A i \in 1..Len(portfolio.result.investments) :
            portfolio.result.investments[i].shares > 0

====
